---- MODULE Spec2Model ----
(***************************************************************************)
(* Cover-letter generator: the two Streamlit scripts src/app.py and        *)
(* src/main.py.  A text is a sequence of one-character strings.  Each      *)
(* action of the session specification is one user event together with    *)
(* the whole script rerun it triggers.                                     *)
(***************************************************************************)
EXTENDS Integers, Sequences, FiniteSets, TLC

VARIABLES
    variant,      \* which script the session runs: "app" or "main"
    envKey,       \* GEMINI_API_KEY of the environment
    keyInput,     \* value of the sidebar key input (main.py)
    cv_file,      \* the file_uploader's value
    form,         \* the values of the job widgets
    manualVal,    \* session values of the manual contact inputs (app.py)
    prompted,     \* the manual contact inputs this run rendered
    trigger,      \* the user event that caused this run
    entered,      \* what that event typed into a manual input: <<field, value>>
    cv_text,      \* text extracted in this run
    name, email, phone,   \* the contact triple of this run
    gateOpen,     \* this run entered the generation branch
    promptRes,    \* result of prompt assembly in this run
    genLog,       \* letter-generation requests of this run, with their outcomes
    valLog,       \* key-validation requests of this run, with their outcomes
    api_configured,   \* this run got past the API configuration
    shown,        \* what this run rendered
    crashed,      \* the uncaught exception that ended this run, or "none"
    letter,       \* the letter text of this run (app.py), the argument of export_pdf
    layout,       \* the paragraph texts the document library cannot lay out
    pdf,          \* what export_pdf gave in this run
    pages,        \* the text each page of a PDF yields, in page order
    answer,       \* what the service answers to the test request of validate_api_key
    validated     \* what validate_api_key(keyInput) returned

vars == << variant, envKey, keyInput, cv_file, form, manualVal, prompted, trigger, entered,
           cv_text, name, email, phone, gateOpen, promptRes, genLog, valLog,
           api_configured, shown, crashed, letter, layout, pdf, pages, answer, validated >>

----------------------------------------------------------------------------
(* Characters *)

Digits == {"0", "1", "2", "3", "4", "5", "6", "7", "8", "9"}

UpperLetters == {"A", "B", "C", "D", "E", "F", "G", "H", "I", "J", "K", "L", "M",
                 "N", "O", "P", "Q", "R", "S", "T", "U", "V", "W", "X", "Y", "Z"}

LowerLetters == {"a", "b", "c", "d", "e", "f", "g", "h", "i", "j", "k", "l", "m",
                 "n", "o", "p", "q", "r", "s", "t", "u", "v", "w", "x", "y", "z"}

\* \w of the re module
WordChars == UpperLetters \cup LowerLetters \cup Digits \cup {"_"}

\* \s of the re module, and what str.strip() removes
Whitespace == {" ", "\t", "\n", "\r", "\f"}

\* str.isupper() on one character
isupper(c) == c \in UpperLetters

\* Python's None
None == << "None" >>

\* truth value of a str-or-None (`if not name`, `name and email and phone`)
Truthy(x) == x # None /\ x # << >>

----------------------------------------------------------------------------
(* Sequence helpers *)

RECURSIVE RunLen(_, _, _)
\* length of the longest run of characters of class C starting at position i
RunLen(t, i, C) ==
    IF i > Len(t) \/ i < 1 THEN 0
    ELSE IF t[i] \notin C THEN 0
    ELSE 1 + RunLen(t, i + 1, C)

Min(S) == CHOOSE x \in S : \A y \in S : x <= y
Max(S) == CHOOSE x \in S : \A y \in S : x >= y

RECURSIVE Flatten(_)
Flatten(ss) == IF ss = << >> THEN << >> ELSE Head(ss) \o Flatten(Tail(ss))

----------------------------------------------------------------------------
(* extract_contact_info, src/app.py:70-74 *)

\* the character class [\w\.-] of the email pattern
EmailChars == WordChars \cup {".", "-"}

\* [\w\.-]+@[\w\.-]+ tried at position i: the index of the last matched
\* character, or 0 when the pattern does not match at i.  Both runs are
\* greedy; giving back characters of the first run never helps, as the
\* character after a shortened run is in the class and so is not "@".
EmailMatchEnd(t, i) ==
    LET k == RunLen(t, i, EmailChars)
        m == RunLen(t, i + k + 1, EmailChars)
    IN  IF k >= 1 /\ i + k <= Len(t) /\ t[i + k] = "@" /\ m >= 1
        THEN i + k + m
        ELSE 0

\* a search that keeps the last match instead of the first
SearchEmailLast(t) ==
    LET starts == {i \in 1..Len(t) : EmailMatchEnd(t, i) # 0}
    IN  IF starts = {} THEN << >>
        ELSE SubSeq(t, Max(starts), EmailMatchEnd(t, Max(starts)))

\* re.search(email pattern, text): start positions are tried left to right
SearchEmail(t) ==
    LET starts == {i \in 1..Len(t) : EmailMatchEnd(t, i) # 0}
    IN  IF starts = {} THEN << >>
        ELSE SubSeq(t, Min(starts), EmailMatchEnd(t, Min(starts)))

\* the character class [\d\s\-] of the phone pattern
PhoneChars == Digits \cup Whitespace \cup {"-"}

\* {8,}
PhoneMinRun == 8

\* (\+62|08|62) tried at position i, alternatives in order: the length of the
\* prefix matched, or 0
PhonePrefixLen(t, i) ==
    IF i + 2 <= Len(t) /\ SubSeq(t, i, i + 2) = << "+", "6", "2" >> THEN 3
    ELSE IF i + 1 <= Len(t) /\ SubSeq(t, i, i + 1) = << "0", "8" >> THEN 2
    ELSE IF i + 1 <= Len(t) /\ SubSeq(t, i, i + 1) = << "6", "2" >> THEN 2
    ELSE 0

\* (?<!\d) at position i
PhoneLookbehind(t, i) == i = 1 \/ t[i - 1] \notin Digits

\* (?!\d) after the character at position j
PhoneLookahead(t, j) == j = Len(t) \/ t[j + 1] \notin Digits

\* a lazy run: the shortest of at least PhoneMinRun characters that the
\* lookahead accepts
PhoneMatchEndShortest(t, i) ==
    LET p    == PhonePrefixLen(t, i)
        run  == RunLen(t, i + p, PhoneChars)
        ends == {r \in PhoneMinRun..run : PhoneLookahead(t, i + p + r - 1)}
    IN  IF PhoneLookbehind(t, i) /\ p # 0 /\ ends # {}
        THEN i + p + Min(ends) - 1
        ELSE 0

\* the whole phone pattern tried at position i: index of the last matched
\* character, or 0.  The run is greedy and backtracks down to PhoneMinRun
\* characters until the lookahead holds.
PhoneMatchEnd(t, i) ==
    LET p    == PhonePrefixLen(t, i)
        run  == RunLen(t, i + p, PhoneChars)
        ends == {r \in PhoneMinRun..run : PhoneLookahead(t, i + p + r - 1)}
    IN  IF PhoneLookbehind(t, i) /\ p # 0 /\ ends # {}
        THEN i + p + Max(ends) - 1
        ELSE 0

\* re.search(phone pattern, text)
SearchPhone(t) ==
    LET starts == {i \in 1..Len(t) : PhoneMatchEnd(t, i) # 0}
    IN  IF starts = {} THEN << >>
        ELSE SubSeq(t, Min(starts), PhoneMatchEnd(t, Min(starts)))

\* the line boundaries of str.splitlines() among the characters modelled
LineBreaks == {"\n", "\r", "\f"}

RECURSIVE SplitFrom(_, _, _)
\* lines of t[i..], cur being the line read so far; "\r\n" is one boundary
\* and a final boundary opens no further line
SplitFrom(t, i, cur) ==
    IF i > Len(t) THEN (IF cur = << >> THEN << >> ELSE << cur >>)
    ELSE IF t[i] = "\r" /\ i < Len(t) /\ t[i + 1] = "\n"
    THEN << cur >> \o SplitFrom(t, i + 2, << >>)
    ELSE IF t[i] \in LineBreaks THEN << cur >> \o SplitFrom(t, i + 1, << >>)
    ELSE SplitFrom(t, i + 1, Append(cur, t[i]))

\* str.splitlines()
splitlines(t) == SplitFrom(t, 1, << >>)

RECURSIVE lstrip(_)
lstrip(s) == IF s # << >> /\ Head(s) \in Whitespace THEN lstrip(Tail(s)) ELSE s

RECURSIVE rstrip(_)
rstrip(s) ==
    IF s # << >> /\ s[Len(s)] \in Whitespace THEN rstrip(SubSeq(s, 1, Len(s) - 1)) ELSE s

\* str.strip()
strip(s) == rstrip(lstrip(s))

\* [:10]
NameScanLines == 10

\* a slice one line too long
NameLinesWide(t) ==
    LET ls == splitlines(t) IN SubSeq(ls, 1, IF Len(ls) < NameScanLines + 1 THEN Len(ls) ELSE NameScanLines + 1)

\* text.splitlines()[:10]
NameLines(t) ==
    LET ls == splitlines(t) IN SubSeq(ls, 1, IF Len(ls) < NameScanLines THEN Len(ls) ELSE NameScanLines)

\* len(line.split()): the number of whitespace-separated tokens of a line
TokenCount(line) ==
    Cardinality({k \in 1..Len(line) :
                    line[k] \notin Whitespace /\ (k = 1 \/ line[k - 1] \in Whitespace)})

\* the rule of the commented draft: a capitalized line of two tokens or more
ExtractNameTwoTokens(t) ==
    LET ls   == NameLines(t)
        good == {n \in 1..Len(ls) :
                    ls[n] # << >> /\ TokenCount(ls[n]) >= 2 /\ isupper(ls[n][1])}
    IN  IF good = {} THEN None ELSE strip(ls[Min(good)])

\* next((line.strip() for line in ... if line and line[0].isupper()), None)
ExtractName(t) ==
    LET ls   == NameLines(t)
        good == {n \in 1..Len(ls) : ls[n] # << >> /\ isupper(ls[n][1])}
    IN  IF good = {} THEN None ELSE strip(ls[Min(good)])

\* the returned triple
extract_contact_info(t) ==
    [name |-> ExtractName(t), email |-> SearchEmail(t), phone |-> SearchPhone(t)]

----------------------------------------------------------------------------
(* Inputs of the extraction specification *)

\* most pieces a generated text is put together from
MaxPieces == 4

NineBreaks == << "\n", "\n", "\n", "\n", "\n", "\n", "\n", "\n", "\n" >>

PhonePieces ==
    { << "+", "6", "2" >>, << "0", "8" >>, << "6", "2" >>,
      << "1", "2", "3", "4", "5", "6", "7" >>,
      << "-" >>, << " " >>, << "\n" >>, << "a" >> }

EmailPieces == { << "a" >>, << "B" >>, << "@" >>, << "-" >>, << " " >>, << "\n" >> }

NamePieces == { << "A" >>, << "a" >>, << " " >>, << "\n" >>, NineBreaks }

TextsOf(P) == { Flatten(f) : f \in UNION { [1..k -> P] : k \in 0..MaxPieces } }

\* Scenario A of the specification
ScenarioA ==
    << "J", "o", "h", "n", " ", "S", "m", "i", "t", "h", "\n", "j", "o", "h", "n", ".", "s", "m", "i", "t", "h", "@", "m", "a", "i", "l", ".", "c", "o", "m", "\n", "0", "8", "1", "2", "3", "4", "5", "6", "7", "8", "9", "\n", ".", ".", "." >>

\* a one-word heading above a two-word name
ResumeHeading ==
    << "R", "e", "s", "u", "m", "e", "\n", "J", "o", "h", "n", " ", "S", "m", "i", "t", "h", "\n" >>

ExtractTexts ==
    TextsOf(PhonePieces) \cup TextsOf(EmailPieces) \cup TextsOf(NamePieces)
        \cup { ScenarioA, ResumeHeading }

----------------------------------------------------------------------------
(* The environment: API keys, the generation service, uploaded files *)

\* str.startswith
startswith(s, p) == Len(s) >= Len(p) /\ SubSeq(s, 1, Len(p)) = p

NoKey == << >>
BadFormatKey == << "s", "k", "-", "1" >>
RevokedKey == << "A", "I", "z", "a", "0" >>
LiveKey == << "A", "I", "z", "a", "1" >>

Keys == { NoKey, BadFormatKey, RevokedKey, LiveKey }

\* texts the service may answer with (response.text)
LetterTexts == { << >>, << "H", "i", "\n" >> }

\* what str(e) of a failed request may contain
ErrorMarkerSets ==
    { {}, {"API_KEY_INVALID"}, {"PERMISSION_DENIED"}, {"QUOTA_EXCEEDED"},
      {"gemini-2.0-flash-exp"}, {"GEMINI-2.0-FLASH-EXP"},
      {"gemini-2.0-flash-exp", "QUOTA_EXCEEDED"} }

\* str.lower() on what str(e) may contain
lower(m) ==
    CASE m = "GEMINI-2.0-FLASH-EXP" -> "gemini-2.0-flash-exp"
      [] m = "API_KEY_INVALID" -> "api_key_invalid"
      [] m = "PERMISSION_DENIED" -> "permission_denied"
      [] m = "QUOTA_EXCEEDED" -> "quota_exceeded"
      [] OTHER -> m

OkOutcomes == { [ok |-> TRUE, text |-> t, markers |-> {}] : t \in LetterTexts }

ErrOutcomes == { [ok |-> FALSE, text |-> << >>, markers |-> m] : m \in ErrorMarkerSets }

\* no request was made
NoCall == [ok |-> FALSE, text |-> << >>, markers |-> {"no call"}]

\* what a generate_content request made under key k may end in
Outcomes(k) == IF k = LiveKey THEN OkOutcomes \cup ErrOutcomes ELSE ErrOutcomes

\* what the "Hello" request of validate_api_key may end in; its answers
\* differ in nothing the script reads
HelloErrOutcomes ==
    { [ok |-> FALSE, text |-> << >>, markers |-> m] : m \in { {}, {"API_KEY_INVALID"} } }

HelloOutcomes(k) ==
    IF k = LiveKey
    THEN { [ok |-> TRUE, text |-> << "H", "i", "\n" >>, markers |-> {}] } \cup HelloErrOutcomes
    ELSE HelloErrOutcomes

NoFile == [mime |-> "none", content |-> << >>, readable |-> FALSE]

DocxMime == "application/vnd.openxmlformats-officedocument.wordprocessingml.document"

\* a resume in the layout of Scenario A: name, email, phone, more lines
FullCv ==
    << "A", "l", " ", "L", "i", "\n", "a", "@", "b", ".", "c", "\n", "0", "8", "1", "2", "3", "4", "5", "6", "7", "8", "\n", "x" >>

\* Scenario B of the specification: no @ anywhere
NoEmailCv ==
    << "A", "l", " ", "L", "i", "\n", "0", "8", "1", "2", "3", "4", "5", "6", "7", "8" >>

\* the files a user may upload: declared media type, decoded content, and
\* whether the decoder of that type can read the bytes
Files ==
    { [mime |-> "text/plain", content |-> FullCv, readable |-> TRUE],
      [mime |-> "text/plain", content |-> NoEmailCv, readable |-> TRUE],
      [mime |-> "text/plain", content |-> << >>, readable |-> TRUE],
      [mime |-> "application/pdf", content |-> << >>, readable |-> FALSE],
      [mime |-> "text/plain", content |-> << >>, readable |-> FALSE],
      [mime |-> "application/octet-stream", content |-> FullCv, readable |-> TRUE] }

\* values of the text widgets
FieldValues ==
    [job_title |-> {"", "Engineer"}, company |-> {"", "Acme"},
     job_desc |-> {"", "Build things"}, job_reqs |-> {"", "Python"},
     hr_name |-> {"", "Sarah"}, hr_role |-> {"", "HR Manager"},
     language |-> {"English", "Bahasa Indonesia"}, word_len |-> {"100", "800"}]

\* the widgets as first rendered
EmptyForm ==
    [job_title |-> "", company |-> "", job_desc |-> "", job_reqs |-> "",
     hr_name |-> "", hr_role |-> "", language |-> "English", word_len |-> "100"]

ContactFields == {"name", "email", "phone"}

\* what a user may type into a manual contact input
ManualValues == { << "B", "o", "b" >> }

NoManual == [f \in ContactFields |-> << >>]

\* datetime.now(), as the parts strftime reads
Today == [day |-> "05", month |-> "November", year |-> "2026"]

\* the values of a run before the script assigns them
NoPrompt == [raised |-> "no call"]
NoPdf == [raised |-> "no call", elements |-> << >>]
NoValidation == [valid |-> FALSE, message |-> "no call", log |-> << >>, configured |-> << >>]

----------------------------------------------------------------------------
(* src/app.py *)

\* extract_text_from_pdf / extract_text_from_docx: the decoder raises on
\* bytes it cannot read, and nothing in app.py catches it
AppDecode(file) ==
    IF file.readable THEN [raised |-> "none", text |-> file.content]
    ELSE [raised |-> "DecodeError", text |-> << >>]

\* extract_text(file)
extract_text(file) ==
    IF file.mime \in {"application/pdf", DocxMime, "text/plain"} THEN AppDecode(file)
    ELSE [raised |-> "none", text |-> << >>]

\* the names the template of generate_prompt interpolates, in order
PromptRefs ==
    << "today", "name", "email", "phone", "cv_text", "job_title", "company", "job_desc",
       "job_reqs", "lang", "word_len", "hr_line", "company", "company", "name", "email",
       "phone", "today_date", "company" >>

\* parameters and locals of generate_prompt
PromptLocals == {"cv_text", "name", "email", "phone", "today", "hr_line", "lang"}

\* module-level names bound when generate_prompt is called
AppGlobals ==
    {"api_key", "cv_file", "job_title", "company", "job_desc", "job_reqs", "word_len",
     "hr_name", "hr_role", "language", "submitted"}

\* hr_line
AppHrLine(f) ==
    IF f.hr_name # "" /\ f.hr_role # "" THEN << "to ", f.hr_name, ", ", f.hr_role >>
    ELSE IF f.hr_name # "" THEN << f.hr_name >>
    ELSE << "the Hiring Manager" >>

\* lang
AppLang(f) ==
    IF f.language = "Bahasa Indonesia" THEN "Indonesian (Bahasa Indonesia)" ELSE "English"

\* generate_prompt(cv_text, name, email, phone): the f-string is evaluated
\* name by name; an unbound name raises NameError and no string is returned
generate_prompt(f, text, n, e, p) ==
    LET unbound == {k \in 1..Len(PromptRefs) : PromptRefs[k] \notin PromptLocals \cup AppGlobals}
    IN  IF unbound # {}
        THEN [raised |-> "NameError", unbound |-> PromptRefs[Min(unbound)]]
        ELSE [raised |-> "none",
              date |-> << Today.day, " ", Today.month, " ", Today.year >>,
              name |-> n, email |-> e, phone |-> p, cv_text |-> text,
              job_title |-> f.job_title, company |-> f.company,
              job_desc |-> f.job_desc, job_reqs |-> f.job_reqs,
              lang |-> AppLang(f),
              length |-> << f.word_len, " words", " (+/- 15%)" >>,
              greeting |-> AppHrLine(f)]

\* str.split(sep) for a one-character sep: the pieces between separators,
\* empty pieces kept, cur being the piece read so far
RECURSIVE SplitOn(_, _, _, _)
SplitOn(t, sep, i, cur) ==
    IF i > Len(t) THEN << cur >>
    ELSE IF t[i] = sep THEN << cur >> \o SplitOn(t, sep, i + 1, << >>)
    ELSE SplitOn(t, sep, i + 1, Append(cur, t[i]))

split(t, sep) == SplitOn(t, sep, 1, << >>)

\* the texts export_pdf makes a Paragraph of:
\* [p.strip() for p in letter_text.split('\n') if p.strip()]
Elements(letter_text) ==
    LET ps == split(letter_text, "\n")
    IN  SelectSeq([k \in 1..Len(ps) |-> strip(ps[k])], LAMBDA q : q # << >>)

\* the paragraph texts the document library may fail to lay out (markup it
\* cannot parse, a block that fits no frame): decided by the library
LayoutOutcomes == SUBSET { << "a" >>, << "b" >> }

\* export_pdf(letter_text): Paragraph(...) and doc.build(elements) are not
\* guarded, so one paragraph the library cannot lay out raises out of the
\* function and no buffer is returned
export_pdf(letter_text, lay) ==
    IF \E k \in 1..Len(Elements(letter_text)) : Elements(letter_text)[k] \in lay
    THEN [raised |-> "LayoutError", elements |-> << >>]
    ELSE [raised |-> "none", elements |-> Elements(letter_text)]

\* the script's values before it assigns any
RunStart ==
    [cv_text |-> << >>, name |-> None, email |-> << >>, phone |-> << >>,
     gateOpen |-> FALSE, promptRes |-> NoPrompt, genLog |-> << >>,
     shown |-> {}, crashed |-> "none", manualVal |-> NoManual, prompted |-> {},
     api_configured |-> FALSE, valLog |-> << >>, letter |-> None, pdf |-> NoPdf]

\* app.py:155-164, pr being the result of generate_prompt and g the outcome of
\* the generate_content request: neither call is guarded
AppGenerate(ran, pr, g, lay) ==
    IF pr.raised # "none"
    THEN [ran EXCEPT !.gateOpen = TRUE, !.promptRes = pr, !.crashed = pr.raised,
                     !.shown = {"uploader", "form", "exception"}]
    ELSE IF ~g.ok
    THEN [ran EXCEPT !.gateOpen = TRUE, !.promptRes = pr,
                     !.genLog = << [model |-> "gemini-2.0-flash", outcome |-> g] >>,
                     !.crashed = "ServiceError",
                     !.shown = {"uploader", "form", "exception"}]
    ELSE IF export_pdf(strip(g.text), lay).raised # "none"
    THEN [ran EXCEPT !.gateOpen = TRUE, !.promptRes = pr,
                     !.genLog = << [model |-> "gemini-2.0-flash", outcome |-> g] >>,
                     !.letter = strip(g.text),
                     !.pdf = export_pdf(strip(g.text), lay),
                     !.crashed = export_pdf(strip(g.text), lay).raised,
                     !.shown = {"uploader", "form", "letter", "exception"}]
    ELSE [ran EXCEPT !.gateOpen = TRUE, !.promptRes = pr,
                     !.genLog = << [model |-> "gemini-2.0-flash", outcome |-> g] >>,
                     !.letter = strip(g.text),
                     !.pdf = export_pdf(strip(g.text), lay),
                     !.shown = {"uploader", "form", "letter", "download pdf"}]

\* app.py:153-166: `if name and email and phone`
AppGate(f, ran, g, lay) ==
    IF ~(Truthy(ran.name) /\ Truthy(ran.email) /\ Truthy(ran.phone))
    THEN [ran EXCEPT !.shown = {"uploader", "form",
                                "warning: complete the missing contact information"}]
    ELSE AppGenerate(ran, generate_prompt(f, ran.cv_text, ran.name, ran.email, ran.phone), g, lay)

\* app.py:146-151: each field extraction left empty is read from a manual
\* st.text_input, which returns the value the session holds for it
AppManualFallback(f, text, c, widgets, g, lay) ==
    AppGate(f,
            [RunStart EXCEPT
                !.api_configured = TRUE,
                !.cv_text = text,
                !.name = IF Truthy(c.name) THEN c.name ELSE widgets["name"],
                !.email = IF Truthy(c.email) THEN c.email ELSE widgets["email"],
                !.phone = IF Truthy(c.phone) THEN c.phone ELSE widgets["phone"],
                !.prompted = {fld \in ContactFields : ~Truthy(c[fld])},
                !.manualVal = [fld \in ContactFields |->
                                  IF Truthy(c[fld]) THEN << >> ELSE widgets[fld]]],
            g, lay)

\* app.py:142-143, x being the result of extract_text(cv_file)
AppExtract(f, x, widgets, g, lay) ==
    IF x.raised # "none"
    THEN [RunStart EXCEPT !.api_configured = TRUE, !.crashed = x.raised,
                          !.shown = {"uploader", "form", "exception"}]
    ELSE AppManualFallback(f, x.text, extract_contact_info(x.text), widgets, g, lay)

\* the run of app.py: `submitted` is the form button's value in this run,
\* widgets the session values of the manual inputs when the run starts, g
\* the outcome of the generate_content request should the run make it
AppScript(key, file, f, submitted, widgets, g, lay) ==
    IF key = << >>
    THEN [RunStart EXCEPT !.shown = {"error: GEMINI_API_KEY not found"}]
    ELSE IF ~(submitted /\ file # NoFile)
    THEN [RunStart EXCEPT !.api_configured = TRUE,
                          !.shown = {"uploader", "form", "info: fill out the form"}]
    ELSE AppExtract(f, extract_text(file), widgets, g, lay)

\* whether a run of app.py with these inputs reaches model.generate_content
AppReachesCall(key, file, f, submitted, widgets) ==
    AppScript(key, file, f, submitted, widgets, NoCall, {}).genLog # << >>


----------------------------------------------------------------------------
(* src/main.py *)

\* the markers tested in another order
FirstMarkerQuotaFirst(markers) ==
    IF "QUOTA_EXCEEDED" \in markers THEN "QUOTA_EXCEEDED"
    ELSE IF "PERMISSION_DENIED" \in markers THEN "PERMISSION_DENIED"
    ELSE IF "API_KEY_INVALID" \in markers THEN "API_KEY_INVALID"
    ELSE "other"

\* the message validate_api_key and generate_cover_letter pick for a failure:
\* the first marker found in str(e), in this order
FirstMarker(markers) ==
    IF "API_KEY_INVALID" \in markers THEN "API_KEY_INVALID"
    ELSE IF "PERMISSION_DENIED" \in markers THEN "PERMISSION_DENIED"
    ELSE IF "QUOTA_EXCEEDED" \in markers THEN "QUOTA_EXCEEDED"
    ELSE "other"

\* whether validate_api_key(k) gets as far as the test request
ValidateCalls(k) == k # << >> /\ startswith(k, << "A", "I", "z", "a" >>)

\* a validation that trusts the key's format and makes no test request
validate_api_keyByFormat(k, v) ==
    IF ~ValidateCalls(k)
    THEN [valid |-> FALSE, message |-> "API key should start with 'AIza'", log |-> << >>,
          configured |-> << >>]
    ELSE [valid |-> TRUE, message |-> "API key is valid", log |-> << >>, configured |-> << k >>]

\* validate_api_key(api_key), v being the outcome of its test request
validate_api_key(k, v) ==
    IF ~ValidateCalls(k)
    THEN [valid |-> FALSE, message |-> "API key should start with 'AIza'", log |-> << >>,
          configured |-> << >>]
    ELSE IF v.ok
    THEN [valid |-> TRUE, message |-> "API key is valid", log |-> << [key |-> k, outcome |-> v] >>,
          configured |-> << k >>]
    ELSE [valid |-> FALSE, configured |-> << k >>,
          message |-> (CASE FirstMarker(v.markers) = "API_KEY_INVALID" -> "Invalid API key. Please check your key."
                         [] FirstMarker(v.markers) = "PERMISSION_DENIED" -> "API key doesn't have permission for Gemini API."
                         [] FirstMarker(v.markers) = "QUOTA_EXCEEDED" -> "API quota exceeded. Please check your usage."
                         [] OTHER -> "Error: str(e)"),
          log |-> << [key |-> k, outcome |-> v] >>]

\* a configuration that takes the sidebar key without validating it
MainConfigureUnchecked(key, keyIn, v1, v2) ==
    IF key = << >>
    THEN [api_configured |-> keyIn # << >>, valLog |-> << >>, sidebar |-> TRUE]
    ELSE LET r == validate_api_key(key, v1)
         IN  [api_configured |-> r.valid \/ keyIn # << >>, valLog |-> r.log, sidebar |-> ~r.valid]

\* the API configuration block: the environment key, else the sidebar input
\* (keyIn), each validated; v1 and v2 are the outcomes of the test requests
MainConfigure(key, keyIn, v1, v2) ==
    IF key = << >>
    THEN IF keyIn # << >>
         THEN LET r == validate_api_key(keyIn, v1)
              IN  [api_configured |-> r.valid, valLog |-> r.log, sidebar |-> TRUE]
         ELSE [api_configured |-> FALSE, valLog |-> << >>, sidebar |-> TRUE]
    ELSE LET r == validate_api_key(key, v1)
         IN  IF r.valid
             THEN [api_configured |-> TRUE, valLog |-> r.log, sidebar |-> FALSE]
             ELSE IF keyIn # << >>
             THEN LET m == validate_api_key(keyIn, v2)
                  IN  [api_configured |-> m.valid, valLog |-> r.log \o m.log, sidebar |-> TRUE]
             ELSE [api_configured |-> FALSE, valLog |-> r.log, sidebar |-> TRUE]

\* the key the first and the second validation of a run are made with
FirstValidated(key, keyIn) == IF key = << >> THEN keyIn ELSE key
SecondValidated(key, keyIn) == IF key = << >> THEN << >> ELSE keyIn

\* extract_text_from_file(uploaded_file): PDF and DOCX failures are caught
\* and give None, the decoding of a text file is not guarded
extract_text_from_file(file) ==
    IF file = NoFile THEN [raised |-> "none", text |-> None, msgs |-> {}]
    ELSE IF file.mime \in {"application/pdf", DocxMime}
    THEN IF file.readable THEN [raised |-> "none", text |-> file.content, msgs |-> {}]
         ELSE [raised |-> "none", text |-> None, msgs |-> {"error: reading file"}]
    ELSE IF file.mime = "text/plain"
    THEN IF file.readable THEN [raised |-> "none", text |-> file.content, msgs |-> {}]
         ELSE [raised |-> "DecodeError", text |-> None, msgs |-> {}]
    ELSE [raised |-> "none", text |-> None, msgs |-> {"error: unsupported file type"}]

\* hr_info
MainHrInfo(f) ==
    IF f.hr_name # "" /\ f.hr_role # ""
    THEN << "Address the cover letter ", "to ", f.hr_name, ", ", f.hr_role, "." >>
    ELSE IF f.hr_name # "" THEN << "Address the cover letter ", "to ", f.hr_name, "." >>
    ELSE << >>

\* the prompt generate_cover_letter builds
MainPrompt(text, f) ==
    [raised |-> "none", cv_text |-> text, job_title |-> f.job_title, company |-> f.company,
     job_desc |-> f.job_desc,
     job_reqs |-> (IF f.job_reqs # "" THEN f.job_reqs ELSE ""),
     greeting |-> MainHrInfo(f)]

\* a fallback decided by the model name alone, whatever else the message holds
TriesFallbackOnModelName(g) ==
    /\ ~g.ok
    /\ "gemini-2.0-flash-exp" \in { lower(m) : m \in g.markers }

\* a retry on every failure
TriesFallbackAlways(g) == ~g.ok

\* whether the except branch of generate_cover_letter tries the other model
TriesFallback(g) ==
    /\ ~g.ok
    /\ FirstMarker(g.markers) = "other"
    /\ "gemini-2.0-flash-exp" \in { lower(m) : m \in g.markers }

\* generate_cover_letter(...): g1 the outcome of the request, g2 that of the
\* request to the fallback model
generate_cover_letter(g1, g2) ==
    LET first == << [model |-> "gemini-2.0-flash-exp", outcome |-> g1] >>
    IN  IF g1.ok THEN [ret |-> g1.text, log |-> first, msgs |-> {}]
        ELSE IF TriesFallback(g1)
        THEN LET both == first \o << [model |-> "gemini-pro", outcome |-> g2] >>
             IN  IF g2.ok
                 THEN [ret |-> g2.text, log |-> both,
                       msgs |-> {"warning: model error", "success: generated using fallback"}]
                 ELSE [ret |-> None, log |-> both,
                       msgs |-> {"warning: model error", "error: fallback also failed"}]
        ELSE [ret |-> None, log |-> first,
              msgs |-> {IF FirstMarker(g1.markers) = "API_KEY_INVALID" THEN "error: api key"
                        ELSE IF FirstMarker(g1.markers) = "PERMISSION_DENIED" THEN "error: permission"
                        ELSE IF FirstMarker(g1.markers) = "QUOTA_EXCEEDED" THEN "error: quota"
                        ELSE "error: unexpected"}]

\* a validation chain without the check of the CV text
MainGateWithoutCv(text, f) ==
    IF f.job_title = "" THEN "error: enter the job title"
    ELSE IF f.company = "" THEN "error: enter the company name"
    ELSE IF f.job_desc = "" THEN "error: enter the job description"
    ELSE "pass"

\* the validation chain under `if generate_btn:`: the first failing check, or "pass"
MainGate(text, f) ==
    IF ~Truthy(text) THEN "error: upload your CV first"
    ELSE IF f.job_title = "" THEN "error: enter the job title"
    ELSE IF f.company = "" THEN "error: enter the company name"
    ELSE IF f.job_desc = "" THEN "error: enter the job description"
    ELSE "pass"

\* a caller that tests the returned value against None only
MainShowLetterUnlessNone(ran, ui, r) ==
    [ran EXCEPT !.gateOpen = TRUE, !.genLog = r.log, !.letter = r.ret,
                !.shown = ui \cup r.msgs \cup
                    (IF r.ret # None
                     THEN {"success: cover letter generated", "letter", "download txt"}
                     ELSE {})]

\* main.py:367-393, r being what generate_cover_letter returned
MainShowLetter(ran, ui, r) ==
    [ran EXCEPT !.gateOpen = TRUE, !.genLog = r.log, !.letter = r.ret,
                !.shown = ui \cup r.msgs \cup
                    (IF Truthy(r.ret)
                     THEN {"success: cover letter generated", "letter", "download txt"}
                     ELSE {})]

\* main.py:304-412, x being the text extraction's result and ui what the
\* left column rendered
MainColumns(ran, x, ui, f, generate_btn, g1, g2) ==
    IF x.raised # "none"
    THEN [ran EXCEPT !.shown = (ui \ {"form", "generate button"}) \cup {"exception"},
                     !.crashed = x.raised]
    ELSE IF ~generate_btn
    THEN [ran EXCEPT !.cv_text = x.text, !.shown = ui \cup {"info: fill in the information"}]
    ELSE IF MainGate(x.text, f) # "pass"
    THEN [ran EXCEPT !.cv_text = x.text, !.shown = ui \cup {MainGate(x.text, f)}]
    ELSE MainShowLetter([ran EXCEPT !.cv_text = x.text, !.promptRes = MainPrompt(x.text, f)],
                        ui, generate_cover_letter(g1, g2))

\* main.py:285-312, cfg being the result of the API configuration
MainAfterConfigure(cfg, side, file, f, generate_btn, g1, g2) ==
    IF ~cfg.api_configured
    THEN [RunStart EXCEPT !.valLog = cfg.valLog,
                          !.shown = side \cup {"warning: configure your API key"}]
    ELSE MainColumns([RunStart EXCEPT !.api_configured = TRUE, !.valLog = cfg.valLog],
                     IF file = NoFile THEN [raised |-> "none", text |-> << >>, msgs |-> {}]
                     ELSE extract_text_from_file(file),
                     side \cup {"uploader", "form", "generate button"}
                          \cup (IF file # NoFile THEN extract_text_from_file(file).msgs ELSE {}),
                     f, generate_btn, g1, g2)

MainSidebar(cfg) == IF cfg.sidebar THEN {"sidebar key input"} ELSE {}

\* the run of main.py
MainScript(key, keyIn, file, f, generate_btn, v1, v2, g1, g2) ==
    MainAfterConfigure(MainConfigure(key, keyIn, v1, v2),
                       MainSidebar(MainConfigure(key, keyIn, v1, v2)),
                       file, f, generate_btn, g1, g2)

\* whether a run of main.py with these inputs reaches generate_cover_letter
MainReachesCall(key, keyIn, file, f, generate_btn, v1, v2) ==
    MainScript(key, keyIn, file, f, generate_btn, v1, v2, NoCall, NoCall).gateOpen

----------------------------------------------------------------------------
(* The session: user events, each followed by the rerun it triggers *)

\* a run that keeps the text of an earlier run when it extracts none
AssignKeepingText(r) ==
    /\ cv_text' = IF r.cv_text = << >> THEN cv_text ELSE r.cv_text
    /\ name' = r.name
    /\ email' = r.email
    /\ phone' = r.phone
    /\ gateOpen' = r.gateOpen
    /\ promptRes' = r.promptRes
    /\ genLog' = r.genLog
    /\ valLog' = r.valLog
    /\ api_configured' = r.api_configured
    /\ shown' = r.shown
    /\ crashed' = r.crashed
    /\ manualVal' = r.manualVal
    /\ prompted' = r.prompted
    /\ letter' = r.letter
    /\ pdf' = r.pdf
    /\ pages' = pages
    /\ answer' = answer
    /\ validated' = validated

\* the values a run leaves
Assign(r) ==
    /\ cv_text' = r.cv_text
    /\ name' = r.name
    /\ email' = r.email
    /\ phone' = r.phone
    /\ gateOpen' = r.gateOpen
    /\ promptRes' = r.promptRes
    /\ genLog' = r.genLog
    /\ valLog' = r.valLog
    /\ api_configured' = r.api_configured
    /\ shown' = r.shown
    /\ crashed' = r.crashed
    /\ manualVal' = r.manualVal
    /\ prompted' = r.prompted
    /\ letter' = r.letter
    /\ pdf' = r.pdf
    /\ pages' = pages
    /\ answer' = answer
    /\ validated' = validated

\* a run of app.py
AppRun(file, f, submitted, widgets) ==
    \E g \in (IF AppReachesCall(envKey, file, f, submitted, widgets)
              THEN Outcomes(envKey) ELSE {NoCall}) :
    \E lay \in (IF g.ok THEN LayoutOutcomes ELSE {{}}) :
        /\ Assign(AppScript(envKey, file, f, submitted, widgets, g, lay))
        /\ layout' = lay

\* a run of main.py
MainRun(keyIn, file, f, generate_btn) ==
    LET k1 == FirstValidated(envKey, keyIn)
        k2 == SecondValidated(envKey, keyIn)
    IN  \E v1 \in (IF ValidateCalls(k1) THEN HelloOutcomes(k1) ELSE {NoCall}) :
        \E v2 \in (IF envKey # << >> /\ ~validate_api_key(envKey, v1).valid /\ ValidateCalls(k2)
                   THEN HelloOutcomes(k2) ELSE {NoCall}) :
        \E g1 \in (IF MainReachesCall(envKey, keyIn, file, f, generate_btn, v1, v2)
                   THEN Outcomes(LiveKey) ELSE {NoCall}) :
        \E g2 \in (IF g1 # NoCall /\ TriesFallback(g1) THEN Outcomes(LiveKey) ELSE {NoCall}) :
            /\ Assign(MainScript(envKey, keyIn, file, f, generate_btn, v1, v2, g1, g2))
            /\ UNCHANGED layout

\* the session opens: the script runs once over the widgets' defaults
Init ==
    /\ variant \in {"app", "main"}
    /\ envKey \in Keys
    /\ keyInput = << >>
    /\ cv_file = NoFile
    /\ form = EmptyForm
    /\ trigger = "load"
    /\ entered = << >>
    /\ \E r \in (IF variant = "app"
                 THEN { AppScript(envKey, NoFile, EmptyForm, FALSE, NoManual, NoCall, {}) }
                 ELSE { MainScript(envKey, << >>, NoFile, EmptyForm, FALSE, v, NoCall, NoCall, NoCall) :
                          v \in (IF ValidateCalls(envKey) THEN HelloOutcomes(envKey) ELSE {NoCall}) }) :
          /\ cv_text = r.cv_text
          /\ name = r.name
          /\ email = r.email
          /\ phone = r.phone
          /\ gateOpen = r.gateOpen
          /\ promptRes = r.promptRes
          /\ genLog = r.genLog
          /\ valLog = r.valLog
          /\ api_configured = r.api_configured
          /\ shown = r.shown
          /\ crashed = r.crashed
          /\ manualVal = r.manualVal
          /\ prompted = r.prompted
          /\ letter = r.letter
          /\ pdf = r.pdf
    /\ layout = {}
    /\ pages = << >>
    /\ answer = NoCall
    /\ validated = NoValidation

\* app.py: the user picks a file in the uploader (a rerun, the form not submitted)
AppUpload ==
    /\ variant = "app"
    /\ "uploader" \in shown
    /\ \E file \in Files \cup {NoFile} :
          /\ file # cv_file
          /\ cv_file' = file
          /\ AppRun(file, form, FALSE, NoManual)
    /\ trigger' = "upload"
    /\ entered' = << >>
    /\ UNCHANGED << variant, envKey, keyInput, form >>

\* app.py: the user edits a widget of st.form; nothing reruns until the form
\* is submitted
AppEditField ==
    /\ variant = "app"
    /\ "form" \in shown
    /\ \E fld \in DOMAIN FieldValues : \E val \in FieldValues[fld] :
          /\ val # form[fld]
          /\ form' = [form EXCEPT ![fld] = val]
    /\ trigger' = "edit"
    /\ entered' = << >>
    /\ UNCHANGED << variant, envKey, keyInput, cv_file, manualVal, prompted, cv_text, name,
                    email, phone, gateOpen, promptRes, genLog, valLog, api_configured,
                    shown, crashed, letter, layout, pdf, pages, answer, validated >>

\* app.py: the user presses "Generate Cover Letter" (st.form_submit_button is
\* True in the rerun this click triggers, and in no other)
AppSubmit ==
    /\ variant = "app"
    /\ "form" \in shown
    /\ AppRun(cv_file, form, TRUE, manualVal)
    /\ trigger' = "submit"
    /\ entered' = << >>
    /\ UNCHANGED << variant, envKey, keyInput, cv_file, form >>

\* app.py: the user types into a manual contact input.  The change reruns
\* the script with the form button False, so the inputs are not rendered
\* again and the session drops their values.
AppManualEntry ==
    /\ variant = "app"
    /\ \E fld \in prompted : \E val \in ManualValues :
          /\ entered' = << fld, val >>
          /\ AppRun(cv_file, form, FALSE, [manualVal EXCEPT ![fld] = val])
    /\ trigger' = "manual"
    /\ UNCHANGED << variant, envKey, keyInput, cv_file, form >>

\* app.py: the user types into a manual contact input and presses the form
\* button before the rerun of the first change has replaced the page; both
\* changes reach one rerun
AppManualEntryAndSubmit ==
    /\ variant = "app"
    /\ \E fld \in prompted : \E val \in ManualValues :
          /\ entered' = << fld, val >>
          /\ AppRun(cv_file, form, TRUE, [manualVal EXCEPT ![fld] = val])
    /\ trigger' = "manual+submit"
    /\ UNCHANGED << variant, envKey, keyInput, cv_file, form >>

\* main.py: the user types a key into the sidebar input
MainSetKey ==
    /\ variant = "main"
    /\ "sidebar key input" \in shown
    /\ \E k \in Keys :
          /\ k # keyInput
          /\ keyInput' = k
          /\ MainRun(k, cv_file, form, FALSE)
    /\ trigger' = "key"
    /\ entered' = << >>
    /\ UNCHANGED << variant, envKey, cv_file, form >>

\* main.py: the user picks a file in the uploader
MainUpload ==
    /\ variant = "main"
    /\ "uploader" \in shown
    /\ \E file \in Files \cup {NoFile} :
          /\ file # cv_file
          /\ cv_file' = file
          /\ MainRun(keyInput, file, form, FALSE)
    /\ trigger' = "upload"
    /\ entered' = << >>
    /\ UNCHANGED << variant, envKey, keyInput, form >>

\* main.py: the user edits a text widget; every change reruns the script
MainEditField ==
    /\ variant = "main"
    /\ "form" \in shown
    /\ \E fld \in {"job_title", "company", "job_desc", "job_reqs", "hr_name", "hr_role"} :
       \E val \in FieldValues[fld] :
          /\ val # form[fld]
          /\ form' = [form EXCEPT ![fld] = val]
          /\ MainRun(keyInput, cv_file, form', FALSE)
    /\ trigger' = "edit"
    /\ entered' = << >>
    /\ UNCHANGED << variant, envKey, keyInput, cv_file >>

\* main.py: the user presses the Generate button
MainGenerate ==
    /\ variant = "main"
    /\ "generate button" \in shown
    /\ MainRun(keyInput, cv_file, form, TRUE)
    /\ trigger' = "generate"
    /\ entered' = << >>
    /\ UNCHANGED << variant, envKey, keyInput, cv_file, form >>

Next ==
    \/ AppUpload
    \/ AppEditField
    \/ AppSubmit
    \/ AppManualEntry
    \/ AppManualEntryAndSubmit
    \/ MainSetKey
    \/ MainUpload
    \/ MainEditField
    \/ MainGenerate

Spec == Init /\ [][Next]_vars

\* letter-generation requests made to the service in this run
genCalls == Len(genLog)

----------------------------------------------------------------------------
(* Claims about a session, checked under Spec *)

\* the state is the one a run left, the widgets unchanged since
AfterRun == trigger # "edit" \/ variant = "main"

\* C1: in either script the letter-generation request is made only when
\* name, email, phone, job title, company and job description are all
\* non-empty.
C1_GenerationNeedsAllRequired ==
    (AfterRun /\ genCalls > 0) =>
        /\ Truthy(name) /\ Truthy(email) /\ Truthy(phone)
        /\ form.job_title # "" /\ form.company # "" /\ form.job_desc # ""

\* the contact fields extraction leaves empty for the uploaded file
MissingAfterExtraction ==
    IF cv_file = NoFile \/ extract_text(cv_file).raised # "none" THEN ContactFields
    ELSE {fld \in ContactFields : ~Truthy(extract_contact_info(extract_text(cv_file).text)[fld])}

\* C2: once the user has entered a value for every field extraction left
\* empty, the rerun that entry triggers has the entered value in that field
\* and makes the generation request.
C2_ManualEntryProceeds ==
    (/\ variant = "app"
     /\ trigger \in {"manual", "manual+submit"}
     /\ MissingAfterExtraction = {entered[1]})
    => /\ [name |-> name, email |-> email, phone |-> phone][entered[1]] = entered[2]
       /\ genCalls >= 1

\* C3: for every submission in which name, email and phone are non-empty,
\* generate_prompt returns, without raising, a prompt that embeds the date as
\* day Month year, the applicant's name, email and phone, the job title,
\* company, description and requirements, the output language and the target
\* word count with the +/- 15% instruction.
C3_PromptAssembled ==
    (variant = "app" /\ AfterRun /\ gateOpen) =>
        /\ promptRes.raised = "none"
        /\ promptRes.date = << Today.day, " ", Today.month, " ", Today.year >>
        /\ promptRes.name = name /\ promptRes.email = email /\ promptRes.phone = phone
        /\ promptRes.job_title = form.job_title /\ promptRes.company = form.company
        /\ promptRes.job_desc = form.job_desc /\ promptRes.job_reqs = form.job_reqs
        /\ promptRes.lang = (IF form.language = "Bahasa Indonesia"
                             THEN "Indonesian (Bahasa Indonesia)" ELSE "English")
        /\ promptRes.length = << form.word_len, " words", " (+/- 15%)" >>

\* s holds sub as a contiguous part
Contains(s, sub) ==
    \E i \in 0..(Len(s) - Len(sub)) : SubSeq(s, i + 1, i + Len(sub)) = sub

\* the greeting target of the claim
ClaimGreeting(f) ==
    IF f.hr_name # "" /\ f.hr_role # "" THEN << "to ", f.hr_name, ", ", f.hr_role >>
    ELSE IF f.hr_name # "" THEN << f.hr_name >>
    ELSE << "the Hiring Manager" >>

\* C10: the greeting target placed in the prompt is "to {HR name}, {HR role}"
\* when both are given, the HR name alone when only it is given, and the
\* literal "the Hiring Manager" whenever the HR name is empty.
C10_GreetingTarget ==
    (AfterRun /\ promptRes.raised = "none") =>
        Contains(promptRes.greeting, ClaimGreeting(form))

\* the declared media types the extractors decode
SupportedTypes == {"application/pdf", DocxMime, "text/plain"}

\* the state is the one left by a run that read the uploaded file
ReadsUpload ==
    /\ cv_file # NoFile
    /\ \/ variant = "app" /\ trigger \in {"submit", "manual+submit"} /\ envKey # NoKey
       \/ variant = "main" /\ api_configured

\* C13: for an uploaded file of an unsupported declared type the run does
\* not fail, the extracted text is empty, an unsupported-format message is
\* shown, and name, email and phone are all asked for by manual entry.
C13_UnsupportedFormat ==
    (ReadsUpload /\ cv_file.mime \notin SupportedTypes) =>
        /\ crashed = "none"
        /\ ~Truthy(cv_text)
        /\ "error: unsupported file type" \in shown
        /\ prompted = ContactFields

\* C14: when a file of a supported type cannot be decoded the run does not
\* end in an exception, an error message is shown, the text is empty, and
\* name, email and phone are all asked for by manual entry.
C14_DecodeFailureRecovered ==
    (ReadsUpload /\ cv_file.mime \in SupportedTypes /\ ~cv_file.readable) =>
        /\ crashed = "none"
        /\ "error: reading file" \in shown
        /\ ~Truthy(cv_text)
        /\ prompted = ContactFields

\* the state is the one left by the run of a Generate action
GenerateAction == trigger \in {"submit", "manual+submit", "generate"}

\* C16 as claimed: the run of a Generate action makes at most one request
\* to the generation service, of any kind.
C16_AtMostOneRequest ==
    GenerateAction => Len(genLog) + Len(valLog) <= 1

\* C16 as amended: the run of a Generate action sends the prompt at most
\* twice, the second time only in main.py, to gemini-pro, after a first
\* failure whose message names gemini-2.0-flash-exp and carries no key,
\* permission or quota marker; app.py sends it at most once and makes no
\* other request; main.py makes besides at most two key-validation requests.
C16_RequestsPerGenerate ==
    GenerateAction =>
        /\ Len(genLog) <= 2
        /\ Len(valLog) <= 2
        /\ variant = "app" => Len(genLog) <= 1 /\ valLog = << >>
        /\ Len(genLog) = 2 =>
              /\ variant = "main"
              /\ ~genLog[1].outcome.ok
              /\ genLog[1].outcome.markers \cap
                    {"gemini-2.0-flash-exp", "GEMINI-2.0-FLASH-EXP"} # {}
              /\ genLog[1].outcome.markers \cap
                    {"API_KEY_INVALID", "PERMISSION_DENIED", "QUOTA_EXCEEDED"} = {}
              /\ genLog[1].model = "gemini-2.0-flash-exp"
              /\ genLog[2].model = "gemini-pro"

\* a Generate action whose first request failed and was sent again
C16_Witness ==
    /\ trigger = "generate"
    /\ Len(genLog) = 2
    /\ ~genLog[1].outcome.ok
    /\ Len(valLog) >= 1

\* the messages the scripts show for a failed generation request
GenerationErrors ==
    {"error: api key", "error: permission", "error: quota", "error: unexpected",
     "error: fallback also failed"}

\* C17: when the generation request of a Generate action fails, the run
\* does not end in an exception, an error message is shown, no letter is
\* displayed, nothing further is requested, and the form is still rendered.
C17_GenerationFailureReported ==
    (GenerateAction /\ genLog # << >> /\ ~genLog[1].outcome.ok) =>
        /\ crashed = "none"
        /\ shown \cap GenerationErrors # {}
        /\ "letter" \notin shown
        /\ Len(genLog) = 1
        /\ "form" \in shown

\* the controls of the tool
FormControls == {"uploader", "form", "generate button"}

\* C18 as claimed: with no credential in the environment no control is
\* rendered, no generation request is made, and no other way of giving a
\* credential is offered.
C18_MissingKeyHalts ==
    (envKey = NoKey /\ AfterRun) =>
        /\ ~api_configured
        /\ shown \cap FormControls = {}
        /\ genLog = << >>
        /\ "sidebar key input" \notin shown

\* C18 as amended: with no credential in the environment, a run whose
\* configuration did not succeed renders no control and makes no
\* generation request; app.py never gets past the configuration; main.py
\* gets past it only with a key typed into the sidebar input that passed
\* validate_api_key in this run.
C18_MissingKeyHaltsUntilValidated ==
    (envKey = NoKey /\ AfterRun) =>
        /\ variant = "app" => ~api_configured /\ "sidebar key input" \notin shown
        /\ ~api_configured => shown \cap FormControls = {} /\ genLog = << >>
        /\ api_configured =>
              /\ variant = "main"
              /\ valLog # << >>
              /\ valLog[Len(valLog)].key = keyInput
              /\ valLog[Len(valLog)].outcome.ok

\* no credential in the environment, a key typed into the sidebar, and the
\* run still halted before the form
C18_Witness ==
    /\ envKey = NoKey
    /\ variant = "main"
    /\ keyInput # << >>
    /\ ~api_configured
    /\ shown \cap FormControls = {}

\* the required job fields and the message that names each
RequiredJobFields == {"job_title", "company", "job_desc"}

FieldMessage ==
    [job_title |-> "error: enter the job title", company |-> "error: enter the company name",
     job_desc |-> "error: enter the job description"]

\* C19: a submission of a readable CV with a required field empty makes no
\* generation request, and every empty required field is named to the user:
\* a job field by its message, a contact field by its manual-entry prompt.
C19_NamesMissingFields ==
    (/\ GenerateAction
     /\ ReadsUpload
     /\ cv_file.mime \in SupportedTypes /\ cv_file.readable /\ cv_file.content # << >>
     /\ \/ \E fld \in RequiredJobFields : form[fld] = ""
        \/ variant = "app" /\ MissingAfterExtraction # {})
    => /\ genLog = << >>
       /\ \A fld \in RequiredJobFields : form[fld] = "" => FieldMessage[fld] \in shown
       /\ variant = "app" => MissingAfterExtraction \subseteq prompted

\* the values the last run left
RunValues ==
    [cv_text |-> cv_text, name |-> name, email |-> email, phone |-> phone,
     gateOpen |-> gateOpen, promptRes |-> promptRes, genLog |-> genLog,
     shown |-> shown, crashed |-> crashed, manualVal |-> manualVal, prompted |-> prompted,
     api_configured |-> api_configured, valLog |-> valLog, letter |-> letter, pdf |-> pdf]

\* what the service answered to the requests of the last run
RunAnswers ==
    {NoCall} \cup { genLog[k].outcome : k \in 1..Len(genLog) }
             \cup { valLog[k].outcome : k \in 1..Len(valLog) }

NamesPrimaryModel(o) ==
    o.markers \cap {"gemini-2.0-flash-exp", "GEMINI-2.0-FLASH-EXP"} # {}

\* C22: in main.py the prompt is sent to the fallback model at most once per
\* call of generate_cover_letter, and only after a primary failure whose
\* message names the primary model and holds none of API_KEY_INVALID,
\* PERMISSION_DENIED, QUOTA_EXCEEDED; when the fallback fails too the failure
\* is reported, no letter is shown and nothing further is requested.
C22_SingleGuardedFallback ==
    (variant = "main" /\ genLog # << >>) =>
        /\ genLog[1].model = "gemini-2.0-flash-exp"
        /\ Len(genLog) <= 2
        /\ Len(genLog) = 2 =>
              /\ genLog[2].model = "gemini-pro"
              /\ ~genLog[1].outcome.ok
              /\ NamesPrimaryModel(genLog[1].outcome)
              /\ "API_KEY_INVALID" \notin genLog[1].outcome.markers
              /\ "PERMISSION_DENIED" \notin genLog[1].outcome.markers
              /\ "QUOTA_EXCEEDED" \notin genLog[1].outcome.markers
        /\ (Len(genLog) = 2 /\ ~genLog[2].outcome.ok) =>
              /\ "error: fallback also failed" \in shown
              /\ "letter" \notin shown
              /\ crashed = "none"

\* a primary failure naming the model in capitals, then a failed fallback
C22_Witness ==
    /\ variant = "main"
    /\ Len(genLog) = 2
    /\ "GEMINI-2.0-FLASH-EXP" \in genLog[1].outcome.markers
    /\ ~genLog[2].outcome.ok
    /\ "error: fallback also failed" \in shown

\* the upload gives main.py no text: none, an unsupported type, or bytes the
\* decoder cannot read
NoTextFromUpload ==
    \/ cv_file = NoFile
    \/ cv_file.mime \notin SupportedTypes
    \/ ~cv_file.readable
    \/ cv_file.content = << >>

\* a submission of app.py whose extraction gave the empty text
AppEmptyTextSubmission ==
    /\ variant = "app"
    /\ trigger \in {"submit", "manual+submit"}
    /\ envKey # NoKey
    /\ cv_file # NoFile
    /\ extract_text(cv_file).raised = "none"
    /\ extract_text(cv_file).text = << >>

MissingContactWarning == "warning: complete the missing contact information"

\* C23 as claimed: the generation request is never made with empty resume
\* text; in main.py a Generate over an upload that gives no text shows the
\* upload-first error; in app.py an empty extracted text leaves name, email
\* and phone empty and the run ends in the missing-contact warning.
C23_NoGenerationOnEmptyText ==
    /\ (AfterRun /\ genLog # << >>) => Truthy(cv_text)
    /\ (variant = "main" /\ trigger = "generate" /\ api_configured /\ NoTextFromUpload) =>
          /\ genLog = << >>
          /\ "error: upload your CV first" \in shown
    /\ AppEmptyTextSubmission =>
          /\ genLog = << >>
          /\ MissingAfterExtraction = ContactFields
          /\ MissingContactWarning \in shown

\* C23 as amended: as claimed, except that app.py's run over an empty text
\* ends in the missing-contact warning only while a manual input is empty;
\* with all three manual inputs filled it enters the generation branch with
\* the empty text, and makes no request because generate_prompt raises.
C23_NoRequestOnEmptyText ==
    /\ (AfterRun /\ genLog # << >>) => Truthy(cv_text)
    /\ (variant = "main" /\ trigger = "generate" /\ api_configured /\ NoTextFromUpload) =>
          /\ genLog = << >>
          /\ "error: upload your CV first" \in shown
    /\ AppEmptyTextSubmission =>
          /\ genLog = << >>
          /\ MissingAfterExtraction = ContactFields
          /\ prompted = ContactFields
          /\ IF \E fld \in ContactFields : manualVal[fld] = << >>
             THEN MissingContactWarning \in shown /\ ~gateOpen
             ELSE gateOpen /\ cv_text = << >> /\ crashed = "NameError"

\* a submission of app.py over an empty text that ends in the warning
C23_Witness ==
    /\ AppEmptyTextSubmission
    /\ MissingContactWarning \in shown
    /\ genLog = << >>

\* a validation request of this run that succeeded
ValidatedInThisRun == \E k \in 1..Len(valLog) : valLog[k].outcome.ok

\* C24: in main.py a run has api_configured true only if a validation
\* request of that run succeeded, the upload control, the form and the
\* Generate button are rendered only when api_configured is true, and every
\* letter-generation request is made in a run that validated a key.
C24_ConfiguredOnlyAfterValidation ==
    variant = "main" =>
        /\ api_configured => ValidatedInThisRun
        /\ shown \cap FormControls # {} => api_configured
        /\ genLog # << >> => api_configured /\ ValidatedInThisRun

\* a letter-generation request made in a run that validated the key
C24_Witness ==
    /\ variant = "main"
    /\ genLog # << >>
    /\ api_configured
    /\ ValidatedInThisRun

\* the run called generate_cover_letter
CalledGenerateCoverLetter == variant = "main" /\ trigger = "generate" /\ gateOpen

\* what the last request of the run ended in
LastAnswer == genLog[Len(genLog)].outcome

LetterItems == {"success: cover letter generated", "letter", "download txt"}

\* C26: a run of main.py that calls generate_cover_letter does not end in an
\* exception; the value returned is the service's text when the last request
\* succeeded and None, with an error message shown, when it failed; and the
\* success message, the letter and the download button are shown exactly
\* when the returned value is non-empty.
C26_GenerateNeverRaises ==
    CalledGenerateCoverLetter =>
        /\ crashed = "none"
        /\ genLog # << >>
        /\ LastAnswer.ok => letter = LastAnswer.text
        /\ ~LastAnswer.ok => letter = None /\ shown \cap GenerationErrors # {}
        /\ IF letter # None /\ letter # << >>
           THEN LetterItems \subseteq shown
           ELSE LetterItems \cap shown = {}

\* the service answered with an empty text: returned, and nothing shown
C26_Witness ==
    /\ CalledGenerateCoverLetter
    /\ LastAnswer.ok
    /\ letter = << >>
    /\ "letter" \notin shown

----------------------------------------------------------------------------
(* Extraction specification: the input is drawn, then the function applied *)

InitExtract ==
    /\ cv_text \in ExtractTexts
    /\ variant = "app"
    /\ envKey = LiveKey
    /\ keyInput = << >>
    /\ cv_file = NoFile
    /\ form = EmptyForm
    /\ manualVal = NoManual
    /\ prompted = {}
    /\ trigger = "input"
    /\ entered = << >>
    /\ name = None
    /\ email = << >>
    /\ phone = << >>
    /\ gateOpen = FALSE
    /\ promptRes = NoPrompt
    /\ genLog = << >>
    /\ valLog = << >>
    /\ api_configured = TRUE
    /\ shown = {}
    /\ crashed = "none"
    /\ letter = None
    /\ layout = {}
    /\ pdf = NoPdf
    /\ pages = << >>
    /\ answer = NoCall
    /\ validated = NoValidation

\* name, email, phone = extract_contact_info(cv_text)
CallExtract ==
    /\ trigger = "input"
    /\ LET r == extract_contact_info(cv_text)
       IN  /\ name' = r.name
           /\ email' = r.email
           /\ phone' = r.phone
    /\ trigger' = "extract"
    /\ UNCHANGED << variant, envKey, keyInput, cv_file, form, manualVal, prompted, entered,
                    cv_text, gateOpen, promptRes, genLog, valLog, api_configured, shown,
                    crashed, letter, layout, pdf, pages, answer, validated >>

NextExtract == CallExtract

SpecExtract == InitExtract /\ [][NextExtract]_vars

----------------------------------------------------------------------------
(* Claims about extract_contact_info, checked under SpecExtract *)

Extracted == trigger = "extract"

JoinLines(ls) == Flatten([n \in 1..Len(ls) |-> IF n < Len(ls) THEN ls[n] \o << "\n" >> ELSE ls[n]])

\* a line holding a capitalized name: an uppercase letter, then letters and spaces
IsNameLine(l) ==
    /\ l # << >>
    /\ isupper(l[1])
    /\ l[Len(l)] # " "
    /\ \A k \in 1..Len(l) : l[k] \in UpperLetters \cup LowerLetters \cup {" "}

\* a line holding exactly an email address
IsEmailLine(l) ==
    \E a \in 2..(Len(l) - 1) :
        /\ l[a] = "@"
        /\ \A k \in 1..Len(l) : k # a => l[k] \in WordChars \cup {".", "-"}

\* a line holding exactly an Indonesian phone number in digits
IsPhoneLine(l) ==
    /\ \E p \in { << "+", "6", "2" >>, << "0", "8" >>, << "6", "2" >> } :
          /\ Len(l) >= Len(p) + 8
          /\ SubSeq(l, 1, Len(p)) = p
          /\ \A k \in (Len(p) + 1)..Len(l) : l[k] \in Digits

\* C4: for a text whose first line is a capitalized name, whose second line is
\* an email address and whose third line is an Indonesian phone number followed
\* by further lines, the triple returned is exactly the name line, the email
\* and the phone digits, with no extra character in any of the three
\* (Scenario A is such a text).
C4_ScenarioTriple ==
    LET ls == splitlines(cv_text)
    IN  (/\ Extracted
         /\ Len(ls) >= 4
         /\ IsNameLine(ls[1])
         /\ IsEmailLine(ls[2])
         /\ IsPhoneLine(ls[3]))
        => /\ name = ls[1]
           /\ email = ls[2]
           /\ phone = ls[3]

\* the characters the claim lets a phone continue with: digits, spaces, hyphens
ClaimPhoneChars == Digits \cup {" ", "-"}

ClaimPhonePrefixAt(t, i) ==
    \E p \in { << "+", "6", "2" >>, << "6", "2" >>, << "0", "8" >> } :
        i + Len(p) - 1 <= Len(t) /\ SubSeq(t, i, i + Len(p) - 1) = p

\* t[i..j] begins with +62, 62 or 08, continues with 8 or more digits, spaces
\* or hyphens, and has no digit right before or right after it
ClaimPhoneShape(t, i, j) ==
    /\ ClaimPhonePrefixAt(t, i)
    /\ j <= Len(t)
    /\ \E p \in { << "+", "6", "2" >>, << "6", "2" >>, << "0", "8" >> } :
          /\ i + Len(p) - 1 <= Len(t)
          /\ SubSeq(t, i, i + Len(p) - 1) = p
          /\ j - (i + Len(p)) + 1 >= 8
          /\ \A k \in (i + Len(p))..j : t[k] \in ClaimPhoneChars
    /\ (i = 1 \/ t[i - 1] \notin Digits)
    /\ (j = Len(t) \/ t[j + 1] \notin Digits)

\* C5: for every text the phone returned is the leftmost substring that begins
\* with +62, 62 or 08, continues with 8 or more digits, spaces or hyphens and
\* is neither preceded nor followed by a digit; it is empty when the text
\* holds no such substring.
C5_PhoneFirstMatch ==
    Extracted =>
        LET t      == cv_text
            starts == {i \in 1..Len(t) :
                          ClaimPhonePrefixAt(t, i) /\ \E j \in i..Len(t) : ClaimPhoneShape(t, i, j)}
        IN  IF starts = {} THEN phone = << >>
            ELSE \E j \in Min(starts)..Len(t) :
                    ClaimPhoneShape(t, Min(starts), j) /\ phone = SubSeq(t, Min(starts), j)

\* the characters the claim lets an email hold on each side of the @
ClaimEmailChars == WordChars \cup {".", "-"}

\* t[i..j] is one or more word characters, dots or hyphens, a single @ at
\* position a, and one or more word characters, dots or hyphens
ClaimEmailShape(t, i, a, j) ==
    /\ i < a /\ a < j /\ j <= Len(t)
    /\ t[a] = "@"
    /\ \A k \in i..j : k # a => t[k] \in ClaimEmailChars

\* C6: for every text the email returned is the leftmost substring made of one
\* or more word characters, dots or hyphens, a single @, and one or more word
\* characters, dots or hyphens; it is empty when the text holds no such
\* substring, in particular when it holds no @.
C6_EmailFirstMatch ==
    Extracted =>
        LET t      == cv_text
            ats    == {a \in 1..Len(t) : t[a] = "@"}
            spans  == {s \in (1..Len(t)) \X ats \X (1..Len(t)) :
                          ClaimEmailShape(t, s[1], s[2], s[3])}
            starts == {s[1] : s \in spans}
        IN  /\ (ats = {} => email = << >>)
            /\ IF spans = {} THEN email = << >>
               ELSE \E s \in spans : s[1] = Min(starts) /\ email = SubSeq(t, s[1], s[3])

\* the text holds an @ that starts no match, and an email was found after it
C6_Witness ==
    /\ Extracted
    /\ email # << >>
    /\ cv_text # << >>
    /\ cv_text[1] = "@"

\* the claim's name rule: the first of the first 10 lines that, once trimmed,
\* is non-empty and begins with an uppercase letter, in trimmed form
ClaimName(t) ==
    LET ls   == splitlines(t)
        good == {n \in 1..Len(ls) :
                    n <= 10 /\ strip(ls[n]) # << >> /\ isupper(strip(ls[n])[1])}
    IN  IF good = {} THEN None ELSE strip(ls[Min(good)])

\* C7: for every text the name returned is the first line among the first 10
\* that, after trimming surrounding whitespace, is non-empty and begins with
\* an uppercase letter, returned trimmed (a line with leading spaces before a
\* capitalized name qualifies).
C7_NameTrimmedRule == Extracted => name = ClaimName(cv_text)

\* lines put in place of those after the 10th
ReplacedTails ==
    { << >>, << << "A" >> >>, << << "a" >>, << "A", " ", "A" >> >>, << << >>, << "a" >> >> }

\* C8: name extraction depends only on the first 10 lines (changing the lines
\* after the 10th never changes the name), the name is absent or begins with
\* an uppercase character, and it is absent when none of the first 10 lines
\* qualifies.
C8_NameWindow ==
    Extracted =>
        LET ls == splitlines(cv_text)
        IN  /\ name = None \/ (name # << >> /\ isupper(name[1]))
            /\ ClaimName(cv_text) = None => name = None
            /\ Len(ls) >= 10 =>
                  \A tail \in ReplacedTails :
                      ExtractName(JoinLines(SubSeq(ls, 1, 10) \o tail)) = name

\* a text of more than 10 lines whose 11th line is capitalized and none of
\* whose first 10 is: no name is returned
C8_Witness ==
    LET ls == splitlines(cv_text)
    IN  /\ Extracted
        /\ Len(ls) > 10
        /\ ls[11] # << >>
        /\ isupper(ls[11][1])
        /\ name = None

\* the characters that continue a phone: digits, whitespace, hyphens
ClaimRunChars ==
    {"0", "1", "2", "3", "4", "5", "6", "7", "8", "9", " ", "\n", "\t", "\r", "\f", "-"}

\* t holds, from position i, one of the prefixes +62, 08, 62, of length p
ClaimPrefix(t, i, p) ==
    /\ i + p - 1 <= Len(t)
    /\ SubSeq(t, i, i + p - 1) \in { << "+", "6", "2" >>, << "0", "8" >>, << "6", "2" >> }

\* C27: a non-empty phone is, somewhere in the text, one of the prefixes
\* +62, 08, 62 followed by the whole run of digits, whitespace and hyphens
\* after it, at least 8 long: the run ends only where the text ends or a
\* character outside the class stands, so the phone holds nothing but an
\* optional leading +, digits, whitespace and hyphens.
C27_PhoneIsPrefixAndWholeRun ==
    (Extracted /\ phone # << >>) =>
        /\ \E i \in 1..Len(cv_text) : \E p \in {2, 3} :
             LET e == i + Len(phone) - 1
             IN  /\ ClaimPrefix(cv_text, i, p)
                 /\ e <= Len(cv_text)
                 /\ phone = SubSeq(cv_text, i, e)
                 /\ Len(phone) - p >= 8
                 /\ \A k \in (i + p)..e : cv_text[k] \in ClaimRunChars
                 /\ e = Len(cv_text) \/ cv_text[e + 1] \notin ClaimRunChars
        /\ \A k \in 1..Len(phone) :
             phone[k] \in ClaimRunChars \/ (k = 1 /\ phone[k] = "+")

\* the phone of Scenario A, which runs over the line break after it
C27_Witness ==
    /\ Extracted
    /\ cv_text = ScenarioA
    /\ phone # << >>
    /\ phone[Len(phone)] = "\n"

\* the line holds one token: after trimming, no whitespace
ClaimOneToken(line) ==
    /\ strip(line) # << >>
    /\ \A k \in 1..Len(strip(line)) : strip(line)[k] \notin Whitespace

\* C28: when the first line, among the first 10, that starts with an
\* uppercase character is a single word, that word is the name, whatever
\* the later lines hold; "Resume" above "John Smith" gives "Resume".
C28_OneTokenNameRule ==
    Extracted =>
        /\ LET ls    == NameLines(cv_text)
               upper == {n \in 1..Len(ls) : ls[n] # << >> /\ ls[n][1] \in UpperLetters}
           IN  (upper # {} /\ ClaimOneToken(ls[Min(upper)])) => name = strip(ls[Min(upper)])
        /\ cv_text = ResumeHeading => name = << "R", "e", "s", "u", "m", "e" >>

\* a one-word heading returned as the name above a two-word name
C28_Witness ==
    /\ Extracted
    /\ cv_text = ResumeHeading
    /\ name = << "R", "e", "s", "u", "m", "e" >>

----------------------------------------------------------------------------
(* Export specification: a letter and the library's layout outcome are    *)
(* drawn, then export_pdf applied                                          *)

MaxLetterLen == 4

LetterChars == {"a", "b", "\n", " "}

\* Scenario D of the specification
ScenarioD ==
    << "D", "e", "a", "r", " ", "H", "i", "r", "i", "n", "g", " ", "M", "a", "n", "a", "g", "e", "r", ",", "\n", "\n", "P", "a", "r", "a", " ", "o", "n", "e", ".", "\n", "\n", "P", "a", "r", "a", " ", "t", "w", "o", "." >>

\* the letters export_pdf is called with: response.text.strip()
ExportLetters ==
    { strip(t) : t \in UNION { [1..n -> LetterChars] : n \in 0..MaxLetterLen } } \cup { ScenarioD }

InitExport ==
    /\ letter \in ExportLetters
    /\ layout \in LayoutOutcomes
    /\ pdf = NoPdf
    /\ trigger = "input"
    /\ variant = "app"
    /\ envKey = LiveKey
    /\ keyInput = << >>
    /\ cv_file = NoFile
    /\ form = EmptyForm
    /\ manualVal = NoManual
    /\ prompted = {}
    /\ entered = << >>
    /\ cv_text = << >>
    /\ name = None
    /\ email = << >>
    /\ phone = << >>
    /\ gateOpen = TRUE
    /\ promptRes = NoPrompt
    /\ genLog = << >>
    /\ valLog = << >>
    /\ api_configured = TRUE
    /\ shown = {}
    /\ crashed = "none"
    /\ pages = << >>
    /\ answer = NoCall
    /\ validated = NoValidation

\* pdf = export_pdf(letter)
CallExport ==
    /\ trigger = "input"
    /\ pdf' = export_pdf(letter, layout)
    /\ crashed' = export_pdf(letter, layout).raised
    /\ trigger' = "export"
    /\ UNCHANGED << variant, envKey, keyInput, cv_file, form, manualVal, prompted, entered,
                    cv_text, name, email, phone, gateOpen, promptRes, genLog, valLog,
                    api_configured, shown, letter, layout, pages, answer, validated >>

NextExport == CallExport

SpecExport == InitExport /\ [][NextExport]_vars

----------------------------------------------------------------------------
(* Claims about export_pdf, checked under SpecExport *)

Exported == trigger = "export"

\* the pieces of t between blank-line boundaries (two consecutive newlines),
\* cur being the piece read so far
RECURSIVE SplitBlank(_, _, _)
SplitBlank(t, i, cur) ==
    IF i > Len(t) THEN << cur >>
    ELSE IF t[i] = "\n" /\ i < Len(t) /\ t[i + 1] = "\n"
    THEN << cur >> \o SplitBlank(t, i + 2, << >>)
    ELSE SplitBlank(t, i + 1, Append(cur, t[i]))

\* the paragraph blocks of the claim: the pieces between blank-line
\* boundaries, trimmed, the empty ones discarded, in order
ClaimParagraphs(t) ==
    LET ps == SplitBlank(t, 1, << >>)
    IN  SelectSeq([k \in 1..Len(ps) |-> strip(ps[k])], LAMBDA q : q # << >>)

\* C11: when every paragraph can be laid out, the blocks of the document are
\* the non-empty pieces of the letter between blank-line boundaries, in
\* order, so lines separated by one newline share a block; for the letter of
\* Scenario D the document holds exactly two blocks.
C11_BlankLineParagraphs ==
    (Exported /\ layout = {}) =>
        /\ pdf.raised = "none"
        /\ pdf.elements = ClaimParagraphs(letter)
        /\ (letter = ScenarioD => Len(pdf.elements) = 2)

\* C12: a non-blank letter with no two consecutive newlines is rendered as
\* exactly one block, however many single newlines it holds.
C12_NoBoundaryOneBlock ==
    (/\ Exported
     /\ layout = {}
     /\ strip(letter) # << >>
     /\ ~Contains(letter, << "\n", "\n" >>))
    => pdf.raised = "none" /\ Len(pdf.elements) = 1

\* C20: when a paragraph cannot be laid out, export_pdf still returns a
\* document, and it holds every other paragraph in order.
C20_SkipsFailingParagraph ==
    (Exported /\ \E k \in 1..Len(Elements(letter)) : Elements(letter)[k] \in layout)
    => /\ pdf.raised = "none"
       /\ pdf.elements = SelectSeq(Elements(letter), LAMBDA q : q \notin layout)

----------------------------------------------------------------------------
(* PDF text specification: the pages of a readable PDF are drawn, then the *)
(* script's extract_text_from_pdf applied                                   *)

MaxPages == 4

\* what page.extract_text() may give for a page; << >> for a page with no
\* extractable text
PageTexts == { << >>, << "a" >>, << "b" >> }

PdfDocuments == UNION { [1..n -> PageTexts] : n \in 0..MaxPages }

\* "\n".join(texts)
RECURSIVE join(_, _)
join(sep, texts) ==
    IF texts = << >> THEN << >>
    ELSE IF Len(texts) = 1 THEN texts[1]
    ELSE texts[1] \o sep \o join(sep, Tail(texts))

\* app.py: "\n".join(page.extract_text() for page in reader.pages if page.extract_text())
extract_text_from_pdf(ps) == join(<< "\n" >>, SelectSeq(ps, LAMBDA t : t # << >>))

\* main.py: text = ""; for page in pdf_reader.pages: text += page.extract_text()
MainExtractTextFromPdf(ps) == Flatten(ps)

InitPdf ==
    /\ variant \in {"app", "main"}
    /\ pages \in PdfDocuments
    /\ cv_text = << >>
    /\ trigger = "input"
    /\ envKey = LiveKey
    /\ keyInput = << >>
    /\ cv_file = NoFile
    /\ form = EmptyForm
    /\ manualVal = NoManual
    /\ prompted = {}
    /\ entered = << >>
    /\ name = None
    /\ email = << >>
    /\ phone = << >>
    /\ gateOpen = FALSE
    /\ promptRes = NoPrompt
    /\ genLog = << >>
    /\ valLog = << >>
    /\ api_configured = TRUE
    /\ shown = {}
    /\ crashed = "none"
    /\ letter = None
    /\ layout = {}
    /\ pdf = NoPdf
    /\ answer = NoCall
    /\ validated = NoValidation

\* cv_text = extract_text_from_pdf(file)
CallExtractPdf ==
    /\ trigger = "input"
    /\ cv_text' = IF variant = "app" THEN extract_text_from_pdf(pages)
                  ELSE MainExtractTextFromPdf(pages)
    /\ trigger' = "pdf text"
    /\ UNCHANGED << variant, envKey, keyInput, cv_file, form, manualVal, prompted, entered,
                    name, email, phone, gateOpen, promptRes, genLog, valLog, api_configured,
                    shown, crashed, letter, layout, pdf, pages, answer, validated >>

NextPdf == CallExtractPdf

SpecPdf == InitPdf /\ [][NextPdf]_vars

----------------------------------------------------------------------------
(* Claims about extract_text_from_pdf, checked under SpecPdf *)

\* the texts of the pages that yield text, each but the last followed by a
\* newline
RECURSIVE ClaimPdfText(_)
ClaimPdfText(ps) ==
    IF ps = << >> THEN << >>
    ELSE IF Head(ps) = << >> THEN ClaimPdfText(Tail(ps))
    ELSE IF ClaimPdfText(Tail(ps)) = << >> THEN Head(ps)
    ELSE Head(ps) \o << "\n" >> \o ClaimPdfText(Tail(ps))

\* C15: the text extracted from a PDF is the texts of its pages in page
\* order with a newline between consecutive ones, a page without text
\* contributing nothing.
C15_PagesJoinedByNewline ==
    trigger = "pdf text" => cv_text = ClaimPdfText(pages)

----------------------------------------------------------------------------
(* Validation specification: a key and the service's answer to the test   *)
(* request are drawn, then main.py's validate_api_key applied              *)

\* the keys validate_api_key is called with
ValidateKeys ==
    Keys \cup { << "A", "I", "z", "a" >>, << "a", "i", "z", "a", "1" >>, << "A", "I", "z" >> }

\* what the test request may end in: an answer, or an exception whose text
\* holds any of the markers
ValidateAnswers ==
    { [ok |-> TRUE, text |-> << "H", "i", "\n" >>, markers |-> {}] } \cup
    { [ok |-> FALSE, text |-> << >>, markers |-> ms] :
        ms \in SUBSET {"API_KEY_INVALID", "PERMISSION_DENIED", "QUOTA_EXCEEDED",
                       "gemini-2.0-flash-exp"} }

InitValidate ==
    /\ keyInput \in ValidateKeys
    /\ answer \in ValidateAnswers
    /\ validated = NoValidation
    /\ trigger = "input"
    /\ variant = "main"
    /\ envKey = NoKey
    /\ cv_file = NoFile
    /\ form = EmptyForm
    /\ manualVal = NoManual
    /\ prompted = {}
    /\ entered = << >>
    /\ cv_text = << >>
    /\ name = None
    /\ email = << >>
    /\ phone = << >>
    /\ gateOpen = FALSE
    /\ promptRes = NoPrompt
    /\ genLog = << >>
    /\ valLog = << >>
    /\ api_configured = FALSE
    /\ shown = {}
    /\ crashed = "none"
    /\ letter = None
    /\ layout = {}
    /\ pdf = NoPdf
    /\ pages = << >>

\* is_valid, message = validate_api_key(api_key)
CallValidate ==
    /\ trigger = "input"
    /\ validated' = validate_api_key(keyInput, answer)
    /\ trigger' = "validated"
    /\ UNCHANGED << variant, envKey, keyInput, cv_file, form, manualVal, prompted, entered,
                    cv_text, name, email, phone, gateOpen, promptRes, genLog, valLog,
                    api_configured, shown, crashed, letter, layout, pdf, pages, answer >>

NextValidate == CallValidate

SpecValidate == InitValidate /\ [][NextValidate]_vars

----------------------------------------------------------------------------
(* Claims about validate_api_key, checked under SpecValidate *)

\* the key is empty or does not start with AIza
ClaimBadFormat(k) ==
    \/ k = << >>
    \/ Len(k) < 4
    \/ k[1] # "A" \/ k[2] # "I" \/ k[3] # "z" \/ k[4] # "a"

\* the message of the claim for a failed test request
ClaimValidationMessage(ms) ==
    IF "API_KEY_INVALID" \in ms THEN "Invalid API key. Please check your key."
    ELSE IF "PERMISSION_DENIED" \in ms THEN "API key doesn't have permission for Gemini API."
    ELSE IF "QUOTA_EXCEEDED" \in ms THEN "API quota exceeded. Please check your usage."
    ELSE "Error: str(e)"

\* C25: validate_api_key returns False with the format message, without
\* configuring the client or making the test request, for a key that is
\* empty or does not start with AIza; for any other key it makes the test
\* request, returns True exactly when the request raises nothing, and on an
\* exception returns False with the message of the first marker found in the
\* order API_KEY_INVALID, PERMISSION_DENIED, QUOTA_EXCEEDED, else the error text.
C25_ValidateApiKey ==
    trigger = "validated" =>
        IF ClaimBadFormat(keyInput)
        THEN /\ ~validated.valid
             /\ validated.message = "API key should start with 'AIza'"
             /\ validated.configured = << >>
             /\ validated.log = << >>
        ELSE /\ validated.valid <=> answer.ok
             /\ validated.configured = << keyInput >>
             /\ validated.log = << [key |-> keyInput, outcome |-> answer] >>
             /\ ~answer.ok => validated.message = ClaimValidationMessage(answer.markers)

\* a well-formed key whose test request failed with two markers at once
C25_Witness ==
    /\ trigger = "validated"
    /\ ~ClaimBadFormat(keyInput)
    /\ ~answer.ok
    /\ {"API_KEY_INVALID", "QUOTA_EXCEEDED"} \subseteq answer.markers
    /\ validated.message = "Invalid API key. Please check your key."

====
